---- MODULE Spec2Model ----
(***************************************************************************)
(* Model of foundations/src/telemetry/tracing/init.rs: the process-wide    *)
(* tracing harness (HARNESS, a OnceCell), its lazily created no-op         *)
(* fallback (NOOP_HARNESS, a Lazy), the accessor TracingHarness::get(),    *)
(* get_active_traces() and the initialization entry point init().          *)
(*                                                                         *)
(* Spec runs whole calls one after another (one action per call).          *)
(* SpecConc runs init and get() one shared-memory access at a time in      *)
(* several execution contexts; SpecStep does so in a single context, with  *)
(* every backend.  SpecDrop adds the callers of init dropping the reporter *)
(* tasks.  SpecOverride and SpecTest are the testing build, where tracer() *)
(* consults the per-context test tracer override stack.                    *)
(***************************************************************************)
EXTENDS Integers, Sequences, FiniteSets, TLC

VARIABLES
    HARNESS,       \* OnceCell<TracingHarness>: <<>> while empty, <<h>> once set
    NOOP_HARNESS,  \* Lazy<TracingHarness>: <<>> until first forced, then <<h>>
    live,          \* contents of the active_roots sets: pairs <<set, span>>
    open,          \* spans started and not yet finished
    nextSpan,      \* number of spans started so far
    now,           \* SystemTime::now()
    calls,         \* number of init calls made so far
    last,          \* the most recent completed call, with its return value
    firstOk,       \* the first enabled init call that returned Ok, 0 if none yet
    disabledSeen,  \* some init call with tracing disabled has returned
    gets,          \* every completed get(): was a harness installed at the call, what came back
    offered,       \* ids of the harnesses offered to HARNESS.set
    tracers,       \* ids of the tracers constructed by Tracer::new
    exporters,     \* backend exporters started: which backend, on which receiver
    tasks,         \* reporter tasks handed back to callers of init, by receiver
    dropped,       \* reporter tasks their caller has dropped, by receiver
    channel,       \* finished spans received on the span channels, in order
    scopes,        \* contents of each harness's test_tracer_scope_stack, per context
    pc,            \* SpecConc: where each execution context is in its call
    loc            \* SpecConc: the local variables of each context's call

vars == <<HARNESS, NOOP_HARNESS, live, open, nextSpan, now, calls, last,
          firstOk, disabledSeen, gets, offered, tracers, exporters,
          tasks, dropped, channel, scopes, pc, loc>>

\* the state only span completion, task handling and test overrides touch
aux == <<dropped, channel, scopes>>

----------------------------------------------------------------------------
(* Bounds                                                                  *)

MaxCalls == 2
MaxSpans == 1
MaxTime == 1
MaxOverrides == 2
NumCtx == 2

Ctx == 1 .. NumCtx

----------------------------------------------------------------------------
(* Settings (crate::telemetry::settings, used through init.rs)             *)

Unlimited == 0 - 1

Passive == [kind |-> "Passive", probability |-> 0, rate |-> Unlimited]

Active(p, r) == [kind |-> "Active", probability |-> p, rate |-> r]

\* probability in percent; a rate of 0 spans per second cannot be configured
SamplingStrategy ==
    {Passive, Active(100, Unlimited), Active(100, 0)}

TracesOutput == {"JaegerThriftUdp", "OpenTelemetryGrpc"}

TracingSettings ==
    [enabled : BOOLEAN, sampling_strategy : SamplingStrategy, output : TracesOutput]

\* the default build: cfg(feature = "telemetry-otlp-grpc") is off
DefaultBuildSettings == {s \in TracingSettings : s.output = "JaegerThriftUdp"}

----------------------------------------------------------------------------
(* Option, OnceCell and Lazy                                               *)

None == <<>>

Some(x) == <<x>>

unwrap_or(opt, default) == IF opt = None THEN default ELSE opt[1]

\* OnceCell::set: stores the value only if the cell is empty
OnceCellSetOverwrite(cell, value) == Some(value)

OnceCellSet(cell, value) == IF cell = None THEN Some(value) ELSE cell

\* Lazy::force: runs the initializer on first use only
LazyForceRebuild(cell, built) == Some(built)

LazyForce(cell, built) == IF cell = None THEN Some(built) ELSE cell

----------------------------------------------------------------------------
(* Samplers and tracers                                                    *)

NoopId == 0

\* RateLimitingProbabilisticSampler::default(): samples nothing
DefaultSampler == [kind |-> "RateLimitingProbabilistic", probability |-> 0, rate |-> Unlimited]

KeepAllSampler == [kind |-> "RateLimitingProbabilistic", probability |-> 100, rate |-> Unlimited]

PassiveSampler == [kind |-> "Passive", probability |-> 0, rate |-> Unlimited]

\* RateLimitingProbabilisticSampler::new(settings)
RateLimitingProbabilisticSamplerNew(s) ==
    IF s.probability >= 0 /\ s.probability <= 100 /\ s.rate # 0
    THEN [ok |-> TRUE,
          sampler |-> [kind |-> "RateLimitingProbabilistic",
                       probability |-> s.probability, rate |-> s.rate]]
    ELSE [ok |-> FALSE, sampler |-> DefaultSampler]

\* Tracer::new(sampler): the tracer and the receiving end of its channel
TracerNew(id, sampler) ==
    [tracer |-> [id |-> id, sampler |-> sampler], span_rx |-> id]

create_tracer_and_span_rx_passive_fails(settings, id) ==
    IF settings.sampling_strategy.kind = "Passive"
    THEN [ok |-> FALSE, failedAt |-> "sampler"] @@ TracerNew(id, PassiveSampler)
    ELSE LET s == RateLimitingProbabilisticSamplerNew(settings.sampling_strategy)
         IN  [ok |-> TRUE, failedAt |-> "none"] @@ TracerNew(id, s.sampler)

create_tracer_and_span_rx(settings, id) ==
    IF settings.sampling_strategy.kind = "Passive"
    THEN [ok |-> TRUE, failedAt |-> "none"] @@ TracerNew(id, PassiveSampler)
    ELSE LET s == RateLimitingProbabilisticSamplerNew(settings.sampling_strategy)
         IN  IF s.ok
             THEN [ok |-> TRUE, failedAt |-> "none"] @@ TracerNew(id, s.sampler)
             ELSE [ok |-> FALSE, failedAt |-> "sampler"] @@ TracerNew(id, s.sampler)

----------------------------------------------------------------------------
(* The harness                                                             *)

ScopeStackDefault == [c \in Ctx |-> <<>>]

\* harnesses are named by the init call that built them, the fallback by NoopId
HarnessIds == {NoopId} \cup (1 .. MaxCalls)

\* struct TracingHarness; active_roots is an Arc, modelled by the set's name
TracingHarness(id, tracer, start) ==
    [id |-> id,
     tracer |-> tracer,
     span_scope_stack |-> ScopeStackDefault,
     test_tracer_scope_stack |-> ScopeStackDefault,
     active_roots |-> id,
     tracing_start |-> start]

\* the initializer of NOOP_HARNESS
NoopHarnessKeepAll ==
    TracingHarness(NoopId, TracerNew(NoopId, KeepAllSampler).tracer, now)

NoopHarnessInit ==
    TracingHarness(NoopId, TracerNew(NoopId, DefaultSampler).tracer, now)

\* TracingHarness::get(): both operands of unwrap_or are evaluated, so the
\* fallback is forced on every call
getForced == LazyForce(NOOP_HARNESS, NoopHarnessInit)

getPreferNoop(cell) ==
    IF NOOP_HARNESS # None THEN NOOP_HARNESS[1] ELSE unwrap_or(cell, getForced[1])

get(cell) == unwrap_or(cell, getForced[1])

\* the non-testing TracingHarness::tracer()
tracerOfFallback(h) == TracerNew(NoopId, DefaultSampler).tracer

tracer(h) == h.tracer

\* LiveReferenceSet::get_live_references
get_live_references(set) == {p[2] : p \in {q \in live : q[1] = set}}

\* spans_to_trace_events: one ongoing event per open root, relative to start
spans_to_trace_events(start, refs) ==
    [origin |-> start, events |-> {[span |-> s, ongoing |-> TRUE] : s \in refs}]

get_active_traces_needs_reporter(h) ==
    spans_to_trace_events(h.tracing_start,
        IF h.tracer.id \in dropped THEN {} ELSE get_live_references(h.active_roots))

get_active_traces_since_now(h) ==
    spans_to_trace_events(now, get_live_references(h.active_roots))

get_active_traces(h) ==
    spans_to_trace_events(h.tracing_start, get_live_references(h.active_roots))

\* the decisions the sampler of a tracer can take for a new root span
SamplerDecisions(sampler) ==
    IF sampler.kind = "Passive" THEN BOOLEAN
    ELSE IF sampler.probability = 0 THEN {FALSE}
    ELSE IF sampler.probability = 100 /\ sampler.rate = Unlimited THEN {TRUE}
    ELSE BOOLEAN

----------------------------------------------------------------------------
(* init                                                                    *)

Ret(kind, task, failedAt) == [kind |-> kind, task |-> task, failedAt |-> failedAt]

IsOk(ret) == ret.kind \in {"OkNone", "OkSome"}

\* output_jaeger_thrift_udp::start / output_otlp_grpc::start: the reporter
\* future draining span_rx, or a bootstrap error
start(output, span_rx, startOk) ==
    [ok |-> startOk, fut |-> span_rx,
     exporter |-> [output |-> output, span_rx |-> span_rx]]

\* what one call of init does to the shared state, and what it returns
Effect(ret, cell, trs, exps, offs) ==
    [ret |-> ret, HARNESS |-> cell, tracers |-> trs, exporters |-> exps, offered |-> offs]

initInstallsBeforeStart(settings, startOk) ==
    LET id == calls + 1
        t == create_tracer_and_span_rx(settings, id)
        e == start(settings.output, t.span_rx, startOk)
        harness == TracingHarness(id, t.tracer, now)
    IN  IF settings.enabled
        THEN IF ~t.ok
             THEN Effect(Ret("Err", 0, "sampler"), HARNESS, tracers, exporters, offered)
             ELSE IF ~e.ok
             THEN Effect(Ret("Err", 0, "exporter"), OnceCellSet(HARNESS, harness),
                         tracers \cup {t.tracer.id}, exporters, offered \cup {id})
             ELSE Effect(Ret("OkSome", e.fut, "none"), OnceCellSet(HARNESS, harness),
                         tracers \cup {t.tracer.id}, exporters \cup {e.exporter},
                         offered \cup {id})
        ELSE Effect(Ret("OkNone", 0, "none"), HARNESS, tracers, exporters, offered)

initDisabledInstalls(settings, startOk) ==
    LET id == calls + 1
        t == create_tracer_and_span_rx([settings EXCEPT !.sampling_strategy = Passive], id)
        e == start(settings.output, t.span_rx, startOk)
        harness == TracingHarness(id, t.tracer, now)
    IN  IF settings.enabled
        THEN IF ~create_tracer_and_span_rx(settings, id).ok
             THEN Effect(Ret("Err", 0, "sampler"), HARNESS, tracers, exporters, offered)
             ELSE IF ~e.ok
             THEN Effect(Ret("Err", 0, "exporter"), HARNESS,
                         tracers \cup {t.tracer.id}, exporters, offered)
             ELSE Effect(Ret("OkSome", e.fut, "none"), OnceCellSet(HARNESS, harness),
                         tracers \cup {t.tracer.id}, exporters \cup {e.exporter},
                         offered \cup {id})
        ELSE Effect(Ret("OkNone", 0, "none"), OnceCellSet(HARNESS, harness),
                    tracers \cup {t.tracer.id}, exporters, offered \cup {id})

init(settings, startOk) ==
    LET id == calls + 1
        t == create_tracer_and_span_rx(settings, id)
        e == start(settings.output, t.span_rx, startOk)
        harness == TracingHarness(id, t.tracer, now)
    IN  IF settings.enabled
        THEN IF ~t.ok
             THEN Effect(Ret("Err", 0, t.failedAt), HARNESS, tracers, exporters, offered)
             ELSE IF ~e.ok
             THEN Effect(Ret("Err", 0, "exporter"), HARNESS,
                         tracers \cup {t.tracer.id}, exporters, offered)
             ELSE Effect(Ret("OkSome", e.fut, "none"), OnceCellSet(HARNESS, harness),
                         tracers \cup {t.tracer.id}, exporters \cup {e.exporter},
                         offered \cup {id})
        ELSE Effect(Ret("OkNone", 0, "none"), HARNESS, tracers, exporters, offered)

----------------------------------------------------------------------------
(* Whole calls, one after another                                          *)

LocIdle == [id |-> 0, settings |-> None, tracer |-> None, fut |-> None, read |-> None]

Init ==
    /\ HARNESS = None
    /\ NOOP_HARNESS = None
    /\ live = {}
    /\ open = {}
    /\ nextSpan = 0
    /\ now = 0
    /\ calls = 0
    /\ last = [op |-> "none"]
    /\ firstOk = 0
    /\ disabledSeen = FALSE
    /\ gets = {}
    /\ offered = {}
    /\ tracers = {}
    /\ exporters = {}
    /\ tasks = {}
    /\ dropped = {}
    /\ channel = <<>>
    /\ scopes = [h \in HarnessIds |-> ScopeStackDefault]
    /\ pc = [c \in Ctx |-> "idle"]
    /\ loc = [c \in Ctx |-> LocIdle]

\* the bookkeeping of a returning init call
Returned(id, settings, ret, installedBefore) ==
    /\ last' = [op |-> "init", id |-> id, settings |-> settings, ret |-> ret,
                installedBefore |-> installedBefore]
    /\ tasks' = IF ret.kind = "OkSome" THEN tasks \cup {ret.task} ELSE tasks
    /\ firstOk' = IF firstOk = 0 /\ settings.enabled /\ IsOk(ret) THEN id ELSE firstOk
    /\ disabledSeen' = (disabledSeen \/ ~settings.enabled)

InitCall(settings, startOk) ==
    /\ calls < MaxCalls
    /\ LET r == init(settings, startOk)
       IN  /\ HARNESS' = r.HARNESS
           /\ tracers' = r.tracers
           /\ exporters' = r.exporters
           /\ offered' = r.offered
           /\ Returned(calls + 1, settings, r.ret, HARNESS # None)
    /\ calls' = calls + 1
    /\ UNCHANGED <<NOOP_HARNESS, live, open, nextSpan, now, gets, pc, loc, aux>>

\* the bookkeeping of a completed TracingHarness::get()
Got(cell, h) ==
    /\ NOOP_HARNESS' = getForced
    /\ gets' = gets \cup {[installed |-> cell # None, h |-> h]}

Get ==
    /\ Got(HARNESS, get(HARNESS))
    /\ last' = [op |-> "get", h |-> get(HARNESS)]
    /\ UNCHANGED <<HARNESS, live, open, nextSpan, now, calls, firstOk, disabledSeen,
                   offered, tracers, exporters, tasks, pc, loc, aux>>

\* the receiving end of a tracer's channel is held by the reporter task of
\* the exporter it was given to, and by the test that built a test tracer
ReceiverAlive(rx) ==
    \/ rx < NoopId
    \/ (\E e \in exporters : e.span_rx = rx) /\ rx \notin dropped

\* a root span is started through harness h with tracer t: registered in
\* the active roots of h when its sampling decision is to keep it
Started(h, t, kept) ==
    LET span == [id |-> nextSpan + 1, set |-> h.active_roots, kept |-> kept,
                 tracer |-> t.id]
    IN  /\ nextSpan < MaxSpans
        /\ kept \in SamplerDecisions(t.sampler)
        /\ Got(HARNESS, h)
        /\ open' = open \cup {span}
        /\ live' = IF kept THEN live \cup {<<span.set, span.id>>} ELSE live
        /\ last' = [op |-> "start_span", span |-> span]
        /\ nextSpan' = nextSpan + 1

StartSpan(kept) ==
    /\ Started(get(HARNESS), tracer(get(HARNESS)), kept)
    /\ UNCHANGED <<HARNESS, now, calls, firstOk, disabledSeen, offered, tracers,
                   exporters, tasks, pc, loc, aux>>

\* a root span is finished: deregistered from the set it was registered in
\* and, if kept, sent into the channel of the tracer that started it
FinishSpan(span) ==
    /\ span \in open
    /\ open' = open \ {span}
    /\ live' = live \ {<<span.set, span.id>>}
    /\ channel' = IF span.kept /\ ReceiverAlive(span.tracer)
                  THEN Append(channel, [rx |-> span.tracer, span |-> span.id])
                  ELSE channel
    /\ last' = [op |-> "finish_span", span |-> span]
    /\ UNCHANGED <<HARNESS, NOOP_HARNESS, nextSpan, now, calls, firstOk, disabledSeen,
                   gets, offered, tracers, exporters, tasks, pc, loc, dropped, scopes>>

\* the caller of init drops the reporter task it was given
DropTask(rx) ==
    /\ rx \in tasks \ dropped
    /\ dropped' = dropped \cup {rx}
    /\ last' = [op |-> "drop_task", task |-> rx]
    /\ UNCHANGED <<HARNESS, NOOP_HARNESS, live, open, nextSpan, now, calls, firstOk,
                   disabledSeen, gets, offered, tracers, exporters, tasks, pc, loc,
                   channel, scopes>>

GetActiveTraces ==
    /\ LET h == get(HARNESS)
       IN  /\ Got(HARNESS, h)
           /\ last' = [op |-> "get_active_traces", h |-> h,
                       snapshot |-> get_active_traces(h)]
    /\ UNCHANGED <<HARNESS, live, open, nextSpan, now, calls, firstOk, disabledSeen,
                   offered, tracers, exporters, tasks, pc, loc, aux>>

Tick ==
    /\ now < MaxTime
    /\ now' = now + 1
    /\ UNCHANGED <<HARNESS, NOOP_HARNESS, live, open, nextSpan, calls, last, firstOk,
                   disabledSeen, gets, offered, tracers, exporters, tasks,
                   pc, loc, aux>>

Next ==
    \/ \E settings \in TracingSettings, startOk \in BOOLEAN : InitCall(settings, startOk)
    \/ Get
    \/ \E kept \in BOOLEAN : StartSpan(kept)
    \/ \E span \in open : FinishSpan(span)
    \/ GetActiveTraces
    \/ Tick

Spec == Init /\ [][Next]_vars

----------------------------------------------------------------------------
(* The same code, one shared-memory access at a time, in several contexts  *)

Goto(c, label, locals) ==
    /\ pc' = [pc EXCEPT ![c] = label]
    /\ loc' = [loc EXCEPT ![c] = locals]

\* init is entered; with tracing disabled it returns at once
CInitEnter(c, settings) ==
    /\ pc[c] = "idle"
    /\ calls < MaxCalls
    /\ calls' = calls + 1
    /\ IF settings.enabled
       THEN /\ Goto(c, "create", [LocIdle EXCEPT !.id = calls + 1,
                                                 !.settings = Some(settings),
                                                 !.read = HARNESS])
            /\ UNCHANGED <<last, tasks, firstOk, disabledSeen>>
       ELSE /\ Returned(calls + 1, settings, Ret("OkNone", 0, "none"), HARNESS # None)
            /\ UNCHANGED <<pc, loc>>
    /\ UNCHANGED <<HARNESS, NOOP_HARNESS, live, open, nextSpan, now, gets, offered,
                   tracers, exporters, aux>>

\* let (tracer, span_rx) = create_tracer_and_span_rx(settings)?
CCreate(c) ==
    /\ pc[c] = "create"
    /\ LET l == loc[c]
           t == create_tracer_and_span_rx(l.settings[1], l.id)
       IN  IF t.ok
           THEN /\ tracers' = tracers \cup {t.tracer.id}
                /\ Goto(c, "start", [l EXCEPT !.tracer = Some(t.tracer)])
                /\ UNCHANGED <<last, tasks, firstOk, disabledSeen>>
           ELSE /\ Returned(l.id, l.settings[1], Ret("Err", 0, t.failedAt), l.read # None)
                /\ Goto(c, "idle", LocIdle)
                /\ UNCHANGED tracers
    /\ UNCHANGED <<HARNESS, NOOP_HARNESS, live, open, nextSpan, now, calls, gets,
                   offered, exporters, aux>>

\* let reporter_fut = match &settings.output { ... start(...)? }
CStartEveryBackend(c, startOk) ==
    /\ pc[c] = "start"
    /\ LET l == loc[c]
           e == start(l.settings[1].output, l.tracer[1].id, startOk)
       IN  /\ exporters' = exporters \cup
                  {start(output, l.tracer[1].id, startOk).exporter : output \in TracesOutput}
           /\ IF e.ok
              THEN /\ Goto(c, "set", [l EXCEPT !.fut = Some(e.fut)])
                   /\ UNCHANGED <<last, tasks, firstOk, disabledSeen>>
              ELSE /\ Returned(l.id, l.settings[1], Ret("Err", 0, "exporter"), l.read # None)
                   /\ Goto(c, "idle", LocIdle)
    /\ UNCHANGED <<HARNESS, NOOP_HARNESS, live, open, nextSpan, now, calls, gets,
                   offered, tracers, aux>>

CStart(c, startOk) ==
    /\ pc[c] = "start"
    /\ LET l == loc[c]
           e == start(l.settings[1].output, l.tracer[1].id, startOk)
       IN  IF e.ok
           THEN /\ exporters' = exporters \cup {e.exporter}
                /\ Goto(c, "set", [l EXCEPT !.fut = Some(e.fut)])
                /\ UNCHANGED <<last, tasks, firstOk, disabledSeen>>
           ELSE /\ Returned(l.id, l.settings[1], Ret("Err", 0, "exporter"), l.read # None)
                /\ Goto(c, "idle", LocIdle)
                /\ UNCHANGED exporters
    /\ UNCHANGED <<HARNESS, NOOP_HARNESS, live, open, nextSpan, now, calls, gets,
                   offered, tracers, aux>>

\* let harness = TracingHarness { ... }; let _ = HARNESS.set(harness);
\* Ok(Some(reporter_fut)).  Building the harness touches no shared state
\* but the clock, which stands still in this specification.
CSet(c) ==
    /\ pc[c] = "set"
    /\ LET l == loc[c]
           harness == TracingHarness(l.id, l.tracer[1], now)
       IN  /\ HARNESS' = OnceCellSet(HARNESS, harness)
           /\ offered' = offered \cup {l.id}
           /\ Returned(l.id, l.settings[1], Ret("OkSome", l.fut[1], "none"), l.read # None)
    /\ Goto(c, "idle", LocIdle)
    /\ UNCHANGED <<NOOP_HARNESS, live, open, nextSpan, now, calls, gets, tracers,
                   exporters, aux>>

\* TracingHarness::get(), first operand: HARNESS.get()
CGetRead(c) ==
    /\ pc[c] = "idle"
    /\ Goto(c, "force", [LocIdle EXCEPT !.read = HARNESS])
    /\ UNCHANGED <<HARNESS, NOOP_HARNESS, live, open, nextSpan, now, calls, last,
                   firstOk, disabledSeen, gets, offered, tracers, exporters, tasks, aux>>

\* TracingHarness::get(), second operand &NOOP_HARNESS, then unwrap_or
CGetForce(c) ==
    /\ pc[c] = "force"
    /\ Got(loc[c].read, get(loc[c].read))
    /\ last' = [op |-> "get", h |-> get(loc[c].read)]
    /\ Goto(c, "idle", LocIdle)
    /\ UNCHANGED <<HARNESS, live, open, nextSpan, now, calls, firstOk, disabledSeen,
                   offered, tracers, exporters, tasks, aux>>

NextConc ==
    \/ \E c \in Ctx, settings \in DefaultBuildSettings : CInitEnter(c, settings)
    \/ \E c \in Ctx : CCreate(c)
    \/ \E c \in Ctx, startOk \in BOOLEAN : CStart(c, startOk)
    \/ \E c \in Ctx : CSet(c)
    \/ \E c \in Ctx : CGetRead(c)
    \/ \E c \in Ctx : CGetForce(c)

SpecConc == Init /\ [][NextConc]_vars

----------------------------------------------------------------------------
(* init one step at a time in a single context, with every backend         *)

StepCtx == CHOOSE c \in Ctx : \A d \in Ctx : c <= d

NextStep ==
    \/ \E settings \in TracingSettings : CInitEnter(StepCtx, settings)
    \/ CCreate(StepCtx)
    \/ \E startOk \in BOOLEAN : CStart(StepCtx, startOk)
    \/ CSet(StepCtx)
    \/ CGetRead(StepCtx)
    \/ CGetForce(StepCtx)

SpecStep == Init /\ [][NextStep]_vars

----------------------------------------------------------------------------
(* Whole calls, with the callers of init dropping their reporter tasks     *)

NextDrop ==
    \/ \E settings \in DefaultBuildSettings, startOk \in BOOLEAN :
           InitCall(settings, startOk)
    \/ Get
    \/ \E kept \in BOOLEAN : StartSpan(kept)
    \/ \E span \in open : FinishSpan(span)
    \/ GetActiveTraces
    \/ \E rx \in tasks : DropTask(rx)

SpecDrop == Init /\ [][NextDrop]_vars

----------------------------------------------------------------------------
(* The testing build: cfg(feature = "testing")                             *)

\* ScopeStack::current: the top of the calling context's stack
ScopeStackCurrent(stack) == IF stack = <<>> THEN None ELSE Some(stack[Len(stack)])

\* tracers a test builds with create_tracer_and_span_rx and keeps the
\* receiver of
TestTracers ==
    {[id |-> NoopId - 1, sampler |-> KeepAllSampler],
     [id |-> NoopId - 2, sampler |-> PassiveSampler]}

\* the testing TracingHarness::tracer(), called in context c
testing_tracer_any_context(h, c) ==
    LET filled == {d \in Ctx : scopes[h.id][d] # <<>>}
    IN  IF filled # {}
        THEN ScopeStackCurrent(scopes[h.id][CHOOSE d \in filled : TRUE])[1]
        ELSE h.tracer

testing_tracer(h, c) ==
    LET current == ScopeStackCurrent(scopes[h.id][c])
    IN  IF current # None THEN current[1] ELSE h.tracer

\* overrides entered and not yet released, over all stacks
Overrides ==
    LET RECURSIVE Sum(_)
        Sum(S) == IF S = {} THEN 0
                  ELSE LET x == CHOOSE y \in S : TRUE
                       IN  Len(scopes[x[1]][x[2]]) + Sum(S \ {x})
    IN  Sum(HarnessIds \X Ctx)

\* ScopeStack::enter on the test_tracer_scope_stack of the current harness
EnterTestTracer(c, t) ==
    /\ Overrides < MaxOverrides
    /\ LET h == get(HARNESS)
       IN  /\ Got(HARNESS, h)
           /\ scopes' = [scopes EXCEPT ![h.id][c] = Append(@, t)]
           /\ last' = [op |-> "enter_test_tracer", ctx |-> c, h |-> h, tracer |-> t]
    /\ UNCHANGED <<HARNESS, live, open, nextSpan, now, calls, firstOk, disabledSeen,
                   offered, tracers, exporters, tasks, pc, loc, dropped, channel>>

\* the guard of the innermost override of context c on harness h is released
LeaveTestTracer(c, h) ==
    /\ scopes[h][c] # <<>>
    /\ scopes' = [scopes EXCEPT ![h][c] = SubSeq(@, 1, Len(@) - 1)]
    /\ last' = [op |-> "leave_test_tracer", ctx |-> c, h |-> h]
    /\ UNCHANGED <<HARNESS, NOOP_HARNESS, live, open, nextSpan, now, calls, firstOk,
                   disabledSeen, gets, offered, tracers, exporters, tasks, pc, loc,
                   dropped, channel>>

\* a root span is started in context c of a test
StartSpanIn(c, kept) ==
    /\ Started(get(HARNESS), testing_tracer(get(HARNESS), c), kept)
    /\ UNCHANGED <<HARNESS, now, calls, firstOk, disabledSeen, offered, tracers,
                   exporters, tasks, pc, loc, aux>>

\* what the tests of this model pass to init
TestInitSettings ==
    {s \in DefaultBuildSettings : s.enabled /\ s.sampling_strategy = Passive}

KeepAllTestTracers == {t \in TestTracers : t.sampler = KeepAllSampler}

\* tests that override the tracer, and call init and get()
NextOverride ==
    \/ \E settings \in TestInitSettings, startOk \in BOOLEAN :
           InitCall(settings, startOk)
    \/ Get
    \/ \E c \in Ctx, t \in TestTracers : EnterTestTracer(c, t)
    \/ \E c \in Ctx, h \in HarnessIds : LeaveTestTracer(c, h)

SpecOverride == Init /\ [][NextOverride]_vars

\* tests that start spans under an overriding tracer, and call init
NextTest ==
    \/ \E settings \in TestInitSettings, startOk \in BOOLEAN :
           InitCall(settings, startOk)
    \/ \E c \in Ctx, t \in KeepAllTestTracers : EnterTestTracer(c, t)
    \/ \E c \in Ctx, h \in HarnessIds : LeaveTestTracer(c, h)
    \/ \E c \in Ctx, kept \in BOOLEAN : StartSpanIn(c, kept)
    \/ \E span \in open : FinishSpan(span)
    \/ GetActiveTraces

SpecTest == Init /\ [][NextTest]_vars

----------------------------------------------------------------------------
(* Properties                                                              *)

\* every harness some TracingHarness::get() has returned so far
observed == {g.h : g \in gets}

observedNoop == {h \in observed : h.id = NoopId}

observedReal == {h \in observed : h.id # NoopId}

LastInit == last.op = "init"

\* C1: after the first successful init with tracing enabled, the harness
\* seen through get() is the one that call built, and no later init call
\* replaces it: every get() made since returned that same harness and tracer.
C1_FirstInitWins ==
    firstOk # 0 =>
        /\ HARNESS # None
        /\ HARNESS[1].id = firstOk
        /\ get(HARNESS) = HARNESS[1]
        /\ tracer(get(HARNESS)).id = firstOk
        /\ \A g \in gets : g.installed => (g.h = HARNESS[1] /\ tracer(g.h).id = firstOk)

C1_Witness ==
    /\ firstOk = 1
    /\ LastInit /\ last.id = 2 /\ last.settings.enabled /\ last.ret.kind = "OkSome"
    /\ HARNESS[1].id = 1

\* C2: an enabled init called while a real harness is installed returns
\* Ok(None), and no second reporter task or backend exporter is produced.
C2_SecondInitReturnsNone ==
    (LastInit /\ last.settings.enabled /\ last.installedBefore) =>
        /\ last.ret.kind = "OkNone"
        /\ Cardinality(tasks) <= 1
        /\ Cardinality(exporters) <= 1

\* C3: once a real harness is installed, every later init call returns
\* success, whatever its settings.
C3_SecondInitNeverFails ==
    (LastInit /\ last.installedBefore) => IsOk(last.ret)

\* C4: an init call that returns an error leaves the harness cell, what
\* get() returns and the reporter tasks as they were; a harness is installed
\* only by a call that built its tracer, started its exporter and returns
\* the reporter task.
C4_AllOrNothing ==
    [][calls' = calls + 1 =>
        /\ last'.ret.kind = "Err" =>
              /\ HARNESS' = HARNESS
              /\ get(HARNESS)' = get(HARNESS)
              /\ tasks' = tasks
              /\ last'.ret.task = 0
        /\ HARNESS' # HARNESS =>
              /\ last'.ret.kind = "OkSome"
              /\ HARNESS'[1].tracer.id \in tracers'
              /\ [output |-> last'.settings.output, span_rx |-> HARNESS'[1].tracer.id]
                     \in exporters'
              /\ last'.ret.task = HARNESS'[1].tracer.id
              /\ last'.ret.task \in tasks']_vars

C4_Witness ==
    /\ LastInit /\ last.ret.kind = "Err" /\ last.ret.failedAt = "exporter"
    /\ HARNESS = None
    /\ tracers # {}

\* C5: init returns an error only when the sampler cannot be constructed or
\* the exporter does not start: never with tracing disabled, and with the
\* Passive strategy never at sampler construction.
C5_ErrorOnlyFromSamplerOrExporter ==
    LastInit =>
        /\ last.ret.kind = "Err" =>
              (last.settings.enabled /\ last.ret.failedAt \in {"sampler", "exporter"})
        /\ ~last.settings.enabled => IsOk(last.ret)
        /\ last.settings.sampling_strategy.kind = "Passive" => last.ret.failedAt # "sampler"
        /\ last.ret.failedAt = "sampler" =>
              /\ last.settings.sampling_strategy.kind = "Active"
              /\ ~RateLimitingProbabilisticSamplerNew(last.settings.sampling_strategy).ok

C5_Witness ==
    /\ LastInit /\ last.ret.kind = "Err" /\ last.ret.failedAt = "sampler"
    /\ last.settings.sampling_strategy = Active(100, 0)

\* C6: init with tracing disabled returns Ok(None), constructs no tracer,
\* starts no exporter and leaves the harness cell and the fallback alone; if
\* no harness was installed, get() still returns the no-op fallback.
C6_DisabledInitDoesNothing ==
    [][(calls' = calls + 1 /\ ~last'.settings.enabled) =>
        /\ last'.ret = Ret("OkNone", 0, "none")
        /\ tracers' = tracers
        /\ exporters' = exporters
        /\ tasks' = tasks
        /\ offered' = offered
        /\ HARNESS' = HARNESS
        /\ NOOP_HARNESS' = NOOP_HARNESS
        /\ HARNESS = None => get(HARNESS)'.id = NoopId]_vars

C6_Witness ==
    /\ LastInit /\ ~last.settings.enabled /\ last.ret.kind = "OkNone"
    /\ HARNESS = None
    /\ get(HARNESS).id = NoopId

C8_GetAlwaysValid ==
    /\ get(HARNESS) # None
    /\ get(HARNESS).id \in {NoopId} \cup (1 .. calls)
    /\ tracer(get(HARNESS)).id = get(HARNESS).id
    /\ HARNESS # None => get(HARNESS) = HARNESS[1]
    /\ HARNESS = None => get(HARNESS).id = NoopId
    /\ \A g \in gets : IF g.installed THEN g.h = HARNESS[1] ELSE g.h.id = NoopId
    /\ Cardinality(observedNoop) <= 1
    /\ observedNoop # {} => observedNoop = {NOOP_HARNESS[1]}

C8_Witness ==
    /\ HARNESS = None
    /\ last.op = "get" /\ last.h = NOOP_HARNESS[1]
    /\ last.h.tracing_start < now

\* C9 as stated: once some get() has returned the no-op harness every later
\* get() returns it too, and at most one harness instance is ever observed.
C9_NoopPermanent ==
    /\ observedNoop # {} => get(HARNESS).id = NoopId
    /\ Cardinality(observed) <= 1

\* C9 as amended: the fallback is created at most once and get() returns it
\* as long as no real harness is installed; from the installation on get()
\* returns the real harness and never the fallback again; at most one
\* fallback and at most one real harness are ever observed.
C9_NoopUntilInstalled ==
    /\ Cardinality(observedNoop) <= 1
    /\ Cardinality(observedReal) <= 1
    /\ (HARNESS = None /\ NOOP_HARNESS # None) => get(HARNESS) = NOOP_HARNESS[1]
    /\ HARNESS # None => get(HARNESS).id # NoopId
    /\ observedReal # {} => get(HARNESS) \in observedReal

C9_Witness ==
    /\ observedNoop # {}
    /\ observedReal # {}
    /\ last.op = "get" /\ last.h.id # NoopId

\* C10: with init running concurrently in several contexts the harness is
\* installed at most once: as soon as one has been offered, one of the
\* offered, completely built harnesses is in the cell and stays there, and
\* every get() called after the installation returns it.
C10_Installed ==
    /\ offered # {} => HARNESS # None
    /\ HARNESS # None =>
          /\ HARNESS[1].id \in offered
          /\ HARNESS[1].tracer.id = HARNESS[1].id
          /\ HARNESS[1].tracer.id \in tracers
          /\ \E e \in exporters : e.span_rx = HARNESS[1].tracer.id
    /\ \A g \in gets : g.installed => g.h = HARNESS[1]
    /\ Cardinality(observedReal) <= 1

C10_InstalledOnce ==
    [](C10_Installed) /\ [][HARNESS # None => HARNESS' = HARNESS]_vars

C10_Witness ==
    /\ HARNESS # None
    /\ \E c \in Ctx : pc[c] = "set" /\ loc[c].read = None
    /\ \E g \in gets : g.installed

\* C11: over any sequence of init calls, the number of reporter tasks handed
\* back to callers never exceeds one.
C11_AtMostOneReporterTask == Cardinality(tasks) <= 1

\* C17: every reporter task init has returned drains the channel of the
\* tracer that TracingHarness::get().tracer() returns.
C17_TasksDrainHarnessTracer ==
    \A task \in tasks : HARNESS # None /\ task = tracer(get(HARNESS)).id

\* the harnesses that exist: the fallback once forced, the installed one
Harnesses ==
    {NOOP_HARNESS[i] : i \in DOMAIN NOOP_HARNESS} \cup {HARNESS[i] : i \in DOMAIN HARNESS}

C12_TopOrOwn ==
    /\ \A h \in Harnesses, c \in Ctx :
          LET stack == scopes[h.id][c]
          IN  /\ stack # <<>> => testing_tracer(h, c) = stack[Len(stack)]
              /\ stack = <<>> <=> testing_tracer(h, c) = h.tracer
    /\ last.op = "enter_test_tracer" => testing_tracer(last.h, last.ctx) = last.tracer

\* C12: in the testing build tracer() called in a context on a harness
\* returns the top of that context's test tracer override stack when the
\* stack is non-empty and the harness's own tracer exactly when it is empty;
\* what it returns in a context changes only when that context's stack does.
C12_TestOverride ==
    /\ [](C12_TopOrOwn)
    /\ [][\A h \in Harnesses, c \in Ctx :
            scopes'[h.id][c] = scopes[h.id][c] =>
                testing_tracer(h, c)' = testing_tracer(h, c)]_vars

C12_Witness ==
    /\ last.op = "leave_test_tracer"
    /\ scopes[last.h][last.ctx] = <<>>
    /\ \E h \in Harnesses :
          /\ h.id = last.h
          /\ testing_tracer(h, last.ctx) = h.tracer
          /\ \E c \in Ctx : c # last.ctx /\ testing_tracer(h, c) \in TestTracers

\* the installed harness was built by init with probability 1, unlimited rate
KeepAllHarness == HARNESS # None /\ HARNESS[1].tracer.sampler = KeepAllSampler

\* how many times the channel of receiver rx has received span id
Received(rx, id) ==
    Cardinality({i \in DOMAIN channel : channel[i] = [rx |-> rx, span |-> id]})

EventsFor(snapshot, id) == {e \in snapshot.events : e.span = id}

\* C13: with a harness built by init with probability 1 and unlimited rate,
\* a root span started through it has exactly one ongoing event in
\* get_active_traces() while it is open; once finished it has none, and the
\* reporter's channel has received it exactly once.
C13_EndToEnd ==
    KeepAllHarness =>
        LET h == HARNESS[1]
            snapshot == get_active_traces(get(HARNESS))
            mine == {s \in open : s.set = h.active_roots}
        IN  /\ \A s \in mine :
                  /\ EventsFor(snapshot, s.id) = {[span |-> s.id, ongoing |-> TRUE]}
                  /\ Received(h.tracer.id, s.id) = 0
            /\ mine = {} => snapshot.events = {}
            /\ (last.op = "get_active_traces" /\ last.h = h) =>
                  \A s \in mine : Cardinality(EventsFor(last.snapshot, s.id)) = 1
            /\ (last.op = "finish_span" /\ last.span.set = h.active_roots) =>
                  /\ EventsFor(snapshot, last.span.id) = {}
                  /\ Received(h.tracer.id, last.span.id) = 1

C13_Witness ==
    /\ KeepAllHarness
    /\ last.op = "get_active_traces" /\ last.snapshot.events = {}
    /\ \E id \in 1 .. nextSpan : Received(HARNESS[1].tracer.id, id) = 1

\* the roots registered, and not yet deregistered, on harness h
RegisteredRoots(h) == {s \in open : s.kept /\ s.set = h.active_roots}

C14_HarnessServes ==
    dropped # {} =>
        /\ HARNESS # None
        /\ HARNESS[1].id = firstOk
        /\ get(HARNESS) = HARNESS[1]
        /\ get_active_traces(get(HARNESS)).events
              = {[span |-> s.id, ongoing |-> TRUE] : s \in RegisteredRoots(get(HARNESS))}
        /\ nextSpan < MaxSpans => ENABLED (\E kept \in BOOLEAN : StartSpan(kept))
        /\ \A s \in open : ENABLED FinishSpan(s)

\* C14: dropping the reporter task init returned leaves the harness alone:
\* get() returns the same installed harness, spans can still be started and
\* finished, and get_active_traces() reports exactly the registered roots.
C14_DropKeepsHarness ==
    /\ [](C14_HarnessServes)
    /\ [][dropped' # dropped =>
            /\ HARNESS' = HARNESS
            /\ get(HARNESS)' = get(HARNESS)
            /\ live' = live
            /\ open' = open
            /\ get_active_traces(get(HARNESS))' = get_active_traces(get(HARNESS))]_vars

C14_Witness ==
    /\ HARNESS # None
    /\ HARNESS[1].tracer.id \in dropped
    /\ last.op = "get_active_traces"
    /\ last.snapshot.events # {}

\* a step of get_active_traces (every other call leaves another mark in
\* last, and the clock leaves last alone)
TracesStep == last'.op = "get_active_traces" /\ now' = now

\* C15: get_active_traces() is a pure read of its harness: the result is
\* made of the harness's recorded start time and the roots registered at
\* the call; the recorded start time never changes; the call leaves the
\* active roots, the scope stacks and the harness cell unchanged.
C15_PureRead ==
    [][/\ TracesStep =>
            /\ last'.snapshot.origin = last'.h.tracing_start
            /\ last'.snapshot.events =
                  {[span |-> p[2], ongoing |-> TRUE] :
                      p \in {q \in live : q[1] = last'.h.active_roots}}
            /\ live' = live
            /\ open' = open
            /\ scopes' = scopes
            /\ channel' = channel
            /\ HARNESS' = HARNESS
            /\ last'.h.span_scope_stack = ScopeStackDefault
       /\ HARNESS # None => HARNESS'[1].tracing_start = HARNESS[1].tracing_start
       /\ NOOP_HARNESS # None =>
            NOOP_HARNESS'[1].tracing_start = NOOP_HARNESS[1].tracing_start]_vars

C15_Witness ==
    /\ last.op = "get_active_traces"
    /\ last.h.tracing_start < now
    /\ last.snapshot.origin = last.h.tracing_start
    /\ last.snapshot.events # {}

\* the exporters started on the receiver of tracer id
ExportersOn(id) == {e \in exporters : e.span_rx = id}

NotInstalled(id) == HARNESS = None \/ HARNESS[1].id # id

\* C16: an enabled init call first constructs the sampler and the tracer,
\* then starts exactly one exporter, the one settings.output selects, on the
\* receiver paired with that tracer, and only then offers the harness; when
\* the sampler fails no exporter is started, and when the exporter fails no
\* harness is offered or installed.
C16_StepsInOrder ==
    LET l == loc[StepCtx]
        at == pc[StepCtx]
    IN  /\ at = "create" =>
              (l.id \notin tracers /\ ExportersOn(l.id) = {} /\ l.id \notin offered)
        /\ at = "start" =>
              /\ l.id \in tracers /\ l.tracer[1].id = l.id
              /\ ExportersOn(l.id) = {}
              /\ l.id \notin offered /\ NotInstalled(l.id)
        /\ at = "set" =>
              /\ l.id \in tracers
              /\ ExportersOn(l.id) =
                    {[output |-> l.settings[1].output, span_rx |-> l.tracer[1].id]}
              /\ l.fut = Some(l.tracer[1].id)
              /\ l.id \notin offered /\ NotInstalled(l.id)
        /\ (LastInit /\ last.settings.enabled) =>
              /\ last.ret.failedAt = "sampler" =>
                    /\ last.id \notin tracers /\ ExportersOn(last.id) = {}
                    /\ last.id \notin offered /\ NotInstalled(last.id)
              /\ last.ret.failedAt = "exporter" =>
                    /\ last.id \in tracers /\ ExportersOn(last.id) = {}
                    /\ last.id \notin offered /\ NotInstalled(last.id)
              /\ last.ret.kind = "OkSome" =>
                    /\ last.id \in tracers
                    /\ ExportersOn(last.id) =
                          {[output |-> last.settings.output, span_rx |-> last.id]}
                    /\ last.id \in offered
                    /\ last.ret.task = last.id

C16_Witness ==
    /\ pc[StepCtx] = "set"
    /\ loc[StepCtx].settings[1].output = "OpenTelemetryGrpc"
    /\ ExportersOn(loc[StepCtx].id) # {}
    /\ LastInit /\ last.ret.failedAt = "exporter"

\* C18: a root span registered in the active roots of the harness get()
\* returned when it was started, and not yet deregistered, is included in
\* TracingHarness::get().get_active_traces().
C18_RootsStayVisible ==
    \A s \in open :
        <<s.set, s.id>> \in live =>
            [span |-> s.id, ongoing |-> TRUE] \in get_active_traces(get(HARNESS)).events

====
